---- MODULE Spec2Model ----
(***************************************************************************)
(* SimpleSlicer (src/wasm/src/slicer.cpp): bounding box, layer slicing,    *)
(* per-triangle intersection, raster infill, G-code and JSON export.       *)
(*                                                                         *)
(* Every number of the program is a C++ double.  A double is modelled as   *)
(* an IEEE-754 binary64 value: a finite value (-1)^s * m * 2^e with an     *)
(* arbitrary-precision significand m (held odd, so equal doubles are equal *)
(* records), an infinity, or NaN.  Every arithmetic operation computes the *)
(* exact result and rounds it to 53 significant bits, ties to even.  The   *)
(* exponent range is not bounded (no value of the model comes near         *)
(* DBL_MAX or DBL_MIN) and NaN carries no sign or payload.                 *)
(***************************************************************************)
EXTENDS Integers, Sequences, FiniteSets, TLC

\* Width of one limb of a significand (an arbitrary-precision natural is a
\* little-endian sequence of limbs, the empty sequence being zero).
LimbBits == 15
Base == 2^LimbBits
\* DBL_MANT_DIG of binary64.
MantBits == 53

Max(a, b) == IF a >= b THEN a ELSE b
Min(a, b) == IF a <= b THEN a ELSE b

\* F(v), or F(v, w), with the arguments evaluated first and once: the way a
\* local variable of the program holds a value that later code uses.
Let(v, F(_)) == CHOOSE r \in {F(x) : x \in {v}} : TRUE
Let2(v, w, F(_, _)) == CHOOSE r \in {F(x, y) : x \in {v}, y \in {w}} : TRUE

----------------------------------------------------------------------------
\* Arbitrary-precision naturals.

Limb(a, i) == IF 1 <= i /\ i <= Len(a) THEN a[i] ELSE 0

Zeros(n) == [i \in 1..n |-> 0]

\* a without the zero limbs at its top.
BigTrim(a) ==
    SubSeq(a, 1, CHOOSE n \in 0..Len(a) :
                     (n = 0 \/ a[n] # 0) /\ \A k \in (n + 1)..Len(a) : a[k] = 0)

\* For 0 <= n < 2^31.
BigOfNat(n) == BigTrim(<<n % Base, (n \div Base) % Base, n \div (Base * Base)>>)

\* For a < 2^31.
BigToNat(a) == Limb(a, 1) + Base * Limb(a, 2) + Base * Base * Limb(a, 3)

\* The carry into limb i of a sum whose limbs, before any carry, are s: a limb
\* below i overflows and every limb between passes the carry on.
CarryInto(s, i) ==
    IF \E j \in 1..(i - 1) :
           s[j] >= Base /\ \A k \in (j + 1)..(i - 1) : s[k] = Base - 1
    THEN 1 ELSE 0

BigCarried(s) == BigTrim([i \in 1..Len(s) |-> (s[i] + CarryInto(s, i)) % Base] \o <<>>)

BigAdd(a, b) ==
    BigCarried([i \in 1..(Max(Len(a), Len(b)) + 1) |-> Limb(a, i) + Limb(b, i)] \o <<>>)

\* The borrow into limb i of a difference whose limbs, before any borrow, are
\* d: a limb below i is negative and every limb between is zero.
BorrowInto(d, i) ==
    IF \E j \in 1..(i - 1) :
           d[j] < 0 /\ \A k \in (j + 1)..(i - 1) : d[k] = 0
    THEN 1 ELSE 0

BigBorrowed(d) ==
    BigTrim([i \in 1..Len(d) |-> (d[i] - BorrowInto(d, i) + Base) % Base] \o <<>>)

\* a - b for a >= b.
BigSub(a, b) == BigBorrowed([i \in 1..Len(a) |-> a[i] - Limb(b, i)] \o <<>>)

\* -1, 0 or 1 as a < b, a = b, a > b.
BigCmp(a, b) ==
    IF Len(a) # Len(b) THEN (IF Len(a) < Len(b) THEN -1 ELSE 1)
    ELSE IF a = b THEN 0
    ELSE IF \E i \in 1..Len(a) :
                a[i] < b[i] /\ \A k \in (i + 1)..Len(a) : a[k] = b[k]
    THEN -1 ELSE 1

\* a * k for 0 <= k < Base: the low halves of the limb products plus their
\* high halves one limb up.
BigMulSmall(a, k) ==
    BigCarried([i \in 1..(Len(a) + 1) |->
                   ((Limb(a, i) * k) % Base) + ((Limb(a, i - 1) * k) \div Base)] \o <<>>)

\* a * 2^n.
BigShl(a, n) ==
    IF a = <<>> THEN <<>>
    ELSE BigTrim([i \in 1..(Len(a) + n \div LimbBits + 1) |->
                    (Limb(a, i - n \div LimbBits) % 2^(LimbBits - (n % LimbBits)))
                      * 2^(n % LimbBits)
                    + (Limb(a, i - 1 - n \div LimbBits) \div 2^(LimbBits - (n % LimbBits)))]
                 \o <<>>)

\* a div 2^n.
BigShr(a, n) ==
    IF n \div LimbBits >= Len(a) THEN <<>>
    ELSE BigTrim([i \in 1..(Len(a) - n \div LimbBits) |->
                    Limb(a, i + n \div LimbBits) \div 2^(n % LimbBits)
                    + (Limb(a, i + 1 + n \div LimbBits) % 2^(n % LimbBits))
                      * 2^(LimbBits - (n % LimbBits))] \o <<>>)

\* The sum of the partial products a * b[j] * Base^(j-1) for j in lo..hi.
RECURSIVE BigMulRange(_, _, _, _)
BigMulRange(a, b, lo, hi) ==
    IF lo = hi THEN Zeros(lo - 1) \o BigMulSmall(a, b[lo])
    ELSE BigAdd(BigMulRange(a, b, lo, (lo + hi) \div 2),
                BigMulRange(a, b, (lo + hi) \div 2 + 1, hi))

BigMul(a, b) ==
    IF a = <<>> \/ b = <<>> THEN <<>> ELSE BigTrim(BigMulRange(a, b, 1, Len(b)))

\* a * 10^k, four digits at a time.
RECURSIVE BigMulPow10(_, _)
BigMulPow10(a, k) ==
    IF k <= 4 THEN BigMulSmall(a, 10^k)
    ELSE BigMulPow10(BigMulSmall(a, 10^4), k - 4)

\* Number of bits of 0 <= x < Base.
BitLenSmall(x) == CHOOSE n \in 0..LimbBits : x < 2^n /\ (n = 0 \/ 2^(n - 1) <= x)

BigBitLen(a) ==
    IF a = <<>> THEN 0 ELSE LimbBits * (Len(a) - 1) + BitLenSmall(a[Len(a)])

BigIsOdd(a) == a # <<>> /\ a[1] % 2 = 1

\* Number of trailing zero bits of 0 < x < Base.
TrailingZerosSmall(x) ==
    CHOOSE n \in 0..(LimbBits - 1) : x % 2^n = 0 /\ x % 2^(n + 1) # 0

BigTrailingZerosAt(a, j) == LimbBits * (j - 1) + TrailingZerosSmall(a[j])

\* Number of trailing zero bits of a # 0.
BigTrailingZeros(a) ==
    BigTrailingZerosAt(a, CHOOSE j \in 1..Len(a) :
                              a[j] # 0 /\ \A k \in 1..(j - 1) : a[k] = 0)

\* The quotient limb of cur by b, for cur < b * Base and the top limb of b at
\* least Base / 2: the estimate q0 from the top limbs is at most two too large.
BigDivLimb(cur, b, q0) ==
    IF BigCmp(BigMulSmall(b, q0), cur) <= 0 THEN q0
    ELSE IF BigCmp(BigMulSmall(b, q0 - 1), cur) <= 0 THEN q0 - 1
    ELSE q0 - 2

BigDivEstimate(cur, b) ==
    Min(Base - 1, (Limb(cur, Len(b) + 1) * Base + Limb(cur, Len(b))) \div b[Len(b)])

\* Schoolbook long division by a divisor b whose top limb is at least
\* Base / 2: <<quotient limbs, remainder>> of the limbs a[1..i] with the
\* remainder r < b carried in from above and qs holding the quotient limbs
\* above.  Each step binds the running remainder cur and its quotient limb q.
RECURSIVE BigDivLimbs(_, _, _, _, _)
BigDivLimbs(a, b, i, r, qs) ==
    IF i = 0 THEN <<qs, r>>
    ELSE CHOOSE d \in {BigDivLimbs(a, b, i - 1, BigSub(c[1], BigMulSmall(b, c[2])),
                                   <<c[2]>> \o qs) :
                       c \in {<<cur, BigDivLimb(cur, b, BigDivEstimate(cur, b))>> :
                              cur \in {BigTrim(<<a[i]>> \o r)}}} : TRUE

\* a div b and a mod b from the division of a * 2^sh by b * 2^sh.
BigDivResult(d, sh) == <<BigTrim(d[1]), BigShr(d[2], sh)>>

\* The top limbs of an that are fewer than bn's are below bn: the division
\* starts with them as the remainder.
BigDivNormal(an, bn, sh) ==
    BigDivResult(BigDivLimbs(an, bn, Max(0, Len(an) - Len(bn) + 1),
                             SubSeq(an, Max(0, Len(an) - Len(bn) + 1) + 1, Len(an)), <<>>),
                 sh)

\* <<a div b, a mod b>> for b # 0.
BigDivMod(a, b) ==
    Let2(BigShl(a, LimbBits - BitLenSmall(b[Len(b)])),
         BigShl(b, LimbBits - BitLenSmall(b[Len(b)])),
         LAMBDA an, bn : BigDivNormal(an, bn, LimbBits - BitLenSmall(b[Len(b)])))

----------------------------------------------------------------------------
\* binary64 values.

NaN == [k |-> "nan"]
Inf(s) == [k |-> "inf", s |-> s]
Zero(s) == [k |-> "fin", s |-> s, m |-> <<>>, e |-> 0]

\* The finite double (-1)^s * m * 2^e, for m of at most MantBits bits.
Fin(s, m, e) ==
    IF m = <<>> THEN Zero(s)
    ELSE Let(BigTrailingZeros(m), LAMBDA tz :
             [k |-> "fin", s |-> s, m |-> BigShr(m, tz), e |-> e + tz])

IsNaN(a) == a.k = "nan"
IsInf(a) == a.k = "inf"
IsFin(a) == a.k = "fin"
IsZero(a) == a.k = "fin" /\ a.m = <<>>

\* q * 2^e or, when the part cut off compares as c to half a unit of q (or
\* sticks out below it), the next value up: ties go to the even q.
RoundUp(s, q, e, c, sticky) ==
    Fin(s, IF c > 0 \/ (c = 0 /\ (sticky \/ BigIsOdd(q))) THEN BigAdd(q, <<1>>) ELSE q, e)

\* The exact value (-1)^s * m * 2^e (plus a nonzero tail below the last bit of
\* m when sticky) rounded to MantBits significant bits, ties to even.
RoundNearestEven(s, m, e, sticky) ==
    IF BigBitLen(m) <= MantBits THEN Fin(s, m, e)
    ELSE Let(BigBitLen(m) - MantBits, LAMBDA sh :
         Let(BigShr(m, sh), LAMBDA q :
         Let(BigCmp(BigSub(m, BigShl(q, sh)), BigShl(<<1>>, sh - 1)), LAMBDA c :
             RoundUp(s, q, e + sh, c, sticky))))

\* The double of an integer |n| < 2^31.
FInt(n) == Fin(IF n < 0 THEN 1 ELSE 0, BigOfNat(IF n < 0 THEN -n ELSE n), 0)

FNeg(a) == IF a.k = "nan" THEN a ELSE [a EXCEPT !.s = 1 - a.s]

\* -1, 0, 1 comparing the magnitudes of two finite doubles.
CmpMag(a, b) ==
    IF a.m = <<>> \/ b.m = <<>>
    THEN (IF a.m = b.m THEN 0 ELSE IF a.m = <<>> THEN -1 ELSE 1)
    ELSE IF BigBitLen(a.m) + a.e # BigBitLen(b.m) + b.e
    THEN (IF BigBitLen(a.m) + a.e < BigBitLen(b.m) + b.e THEN -1 ELSE 1)
    ELSE BigCmp(BigShl(a.m, a.e - Min(a.e, b.e)), BigShl(b.m, b.e - Min(a.e, b.e)))

\* operator< on doubles: false when either side is NaN.
FLt(a, b) ==
    IF a.k = "nan" \/ b.k = "nan" THEN FALSE
    ELSE IF a.k = "inf" THEN a.s = 1 /\ ~(b.k = "inf" /\ b.s = 1)
    ELSE IF b.k = "inf" THEN b.s = 0
    ELSE IF a.m = <<>> /\ b.m = <<>> THEN FALSE
    ELSE IF a.s # b.s THEN a.s = 1
    ELSE (IF a.s = 0 THEN CmpMag(a, b) ELSE CmpMag(b, a)) < 0

\* operator== on doubles (+0 equals -0, NaN equals nothing).
FEq(a, b) ==
    IF a.k = "nan" \/ b.k = "nan" THEN FALSE
    ELSE IF IsZero(a) /\ IsZero(b) THEN TRUE
    ELSE a = b

\* operator<= on doubles.
FLe(a, b) == FLt(a, b) \/ FEq(a, b)

\* The sum of (-1)^sa * ma * 2^e and (-1)^sb * mb * 2^e, c comparing ma to mb.
AddAligned(sa, ma, sb, mb, e, c) ==
    RoundNearestEven(
        IF sa = sb \/ c > 0 THEN sa ELSE IF c < 0 THEN sb ELSE 0,
        IF sa = sb THEN BigAdd(ma, mb) ELSE IF c > 0 THEN BigSub(ma, mb) ELSE BigSub(mb, ma),
        e, FALSE)

FAdd(a, b) ==
    IF a.k = "nan" \/ b.k = "nan" THEN NaN
    ELSE IF a.k = "inf" THEN (IF b.k = "inf" /\ b.s # a.s THEN NaN ELSE a)
    ELSE IF b.k = "inf" THEN b
    ELSE IF a.m = <<>> /\ b.m = <<>> THEN Zero(IF a.s = b.s THEN a.s ELSE 0)
    ELSE IF a.m = <<>> THEN b
    ELSE IF b.m = <<>> THEN a
    ELSE Let2(BigShl(a.m, a.e - Min(a.e, b.e)), BigShl(b.m, b.e - Min(a.e, b.e)),
              LAMBDA ma, mb :
                  AddAligned(a.s, ma, b.s, mb, Min(a.e, b.e), BigCmp(ma, mb)))

FSub(a, b) == FAdd(a, FNeg(b))

FMul(a, b) ==
    IF a.k = "nan" \/ b.k = "nan" THEN NaN
    ELSE IF a.k = "inf" \/ b.k = "inf"
    THEN (IF IsZero(a) \/ IsZero(b) THEN NaN ELSE Inf((a.s + b.s) % 2))
    ELSE RoundNearestEven((a.s + b.s) % 2, BigMul(a.m, b.m), a.e + b.e, FALSE)

\* a / b for finite nonzero a and b, the dividend shifted left by sh bits so
\* that the quotient has more than MantBits bits.
DivFinite(a, b, sh) ==
    Let(BigDivMod(BigShl(a.m, sh), b.m), LAMBDA qr :
        RoundNearestEven((a.s + b.s) % 2, qr[1], a.e - b.e - sh, qr[2] # <<>>))

FDiv(a, b) ==
    IF a.k = "nan" \/ b.k = "nan" THEN NaN
    ELSE IF a.k = "inf" THEN (IF b.k = "inf" THEN NaN ELSE Inf((a.s + b.s) % 2))
    ELSE IF b.k = "inf" THEN Zero((a.s + b.s) % 2)
    ELSE IF b.m = <<>> THEN (IF a.m = <<>> THEN NaN ELSE Inf((a.s + b.s) % 2))
    ELSE IF a.m = <<>> THEN Zero((a.s + b.s) % 2)
    ELSE DivFinite(a, b, Max(0, MantBits + 3 + BigBitLen(b.m) - BigBitLen(a.m)))

\* std::min(a, b) and std::max(a, b) of <algorithm>.
StdMin(a, b) == IF FLt(b, a) THEN b ELSE a
StdMax(a, b) == IF FLt(a, b) THEN b ELSE a

----------------------------------------------------------------------------
\* operator<<(std::ostream&, double) with the stream's default flags: the text
\* of printf("%g"), six significant digits.  The text is held as what decides
\* it: the sign, the six digits n (100000..999999, or 0 for a zero) and the
\* decimal exponent x of the first digit; or "inf" / "nan".

Precision == 6

\* For num >= den: the x >= x0 with den * 10^(x-x0) <= num < den * 10^(x-x0+1).
RECURSIVE DecExpUp(_, _, _)
DecExpUp(num, den, x0) ==
    IF BigCmp(num, BigMulSmall(den, 10)) < 0 THEN x0
    ELSE DecExpUp(num, BigMulSmall(den, 10), x0 + 1)

\* For num < den: the x < x0 with den <= num * 10^(x0-x) < den * 10.
RECURSIVE DecExpDown(_, _, _)
DecExpDown(num, den, x0) ==
    IF BigCmp(BigMulSmall(num, 10), den) >= 0 THEN x0 - 1
    ELSE DecExpDown(BigMulSmall(num, 10), den, x0 - 1)

\* num / den rounded to an integer, ties to even.
BigDivRound(num, den) ==
    Let(BigDivMod(num, den), LAMBDA qr :
    Let(BigCmp(BigMulSmall(qr[2], 2), den), LAMBDA c :
        IF c > 0 \/ (c = 0 /\ BigIsOdd(qr[1])) THEN BigAdd(qr[1], <<1>>) ELSE qr[1]))

FormatDigits(s, n, x) ==
    IF n = 10^Precision
    THEN [k |-> "dec", s |-> s, n |-> 10^(Precision - 1), x |-> x + 1]
    ELSE [k |-> "dec", s |-> s, n |-> n, x |-> x]

\* num / den to Precision significant digits.
FormatRatio(s, num, den) ==
    Let(IF BigCmp(num, den) >= 0 THEN DecExpUp(num, den, 0) ELSE DecExpDown(num, den, 0),
        LAMBDA x :
            FormatDigits(s,
                BigToNat(BigDivRound(BigMulPow10(num, Max(Precision - 1 - x, 0)),
                                     BigMulPow10(den, Max(x + 1 - Precision, 0)))),
                x))

FormatDouble(a) ==
    IF a.k = "nan" THEN [k |-> "nan"]
    ELSE IF a.k = "inf" THEN [k |-> "inf", s |-> a.s]
    ELSE IF a.m = <<>> THEN [k |-> "dec", s |-> a.s, n |-> 0, x |-> 0]
    ELSE Let2(IF a.e >= 0 THEN BigShl(a.m, a.e) ELSE a.m,
              IF a.e >= 0 THEN <<1>> ELSE BigShl(<<1>>, -a.e),
              LAMBDA num, den : FormatRatio(a.s, num, den))

----------------------------------------------------------------------------
\* The program's data (slicer.cpp lines 11-29).

Vector3(x, y, z) == [x |-> x, y |-> y, z |-> z]
Triangle(v1, v2, v3) == [v1 |-> v1, v2 |-> v2, v3 |-> v3]
Layer(h, contours, infill) == [height |-> h, contours |-> contours, infill |-> infill]

\* Bounds of the model: the layers and the infill lines of the calls it
\* follows (a call that would produce more is not followed), and the
\* generateGCode() calls counted.
MaxLayers == 16
MaxInfillLines == 4
MaxCalls == 2

\* The twelve triangles of the cube with corners (lo,lo,lo) and (hi,hi,hi).
CubeTriangles(lo, hi) ==
    LET p1 == Vector3(lo, lo, lo)
        p2 == Vector3(hi, lo, lo)
        p3 == Vector3(hi, hi, lo)
        p4 == Vector3(lo, hi, lo)
        p5 == Vector3(lo, lo, hi)
        p6 == Vector3(hi, lo, hi)
        p7 == Vector3(hi, hi, hi)
        p8 == Vector3(lo, hi, hi)
    IN  << Triangle(p1, p2, p3), Triangle(p1, p3, p4),
           Triangle(p5, p6, p7), Triangle(p5, p7, p8),
           Triangle(p1, p2, p6), Triangle(p1, p6, p5),
           Triangle(p3, p4, p8), Triangle(p3, p8, p7),
           Triangle(p2, p3, p7), Triangle(p2, p7, p6),
           Triangle(p1, p4, p8), Triangle(p1, p8, p5) >>

\* The mesh createTestCube() installs: size = 10.0, corners at -size/2, size/2.
createTestCube == CubeTriangles(FDiv(FNeg(FInt(10)), FInt(2)), FDiv(FInt(10), FInt(2)))

\* Coordinate c (1 = x, 2 = y, 3 = z) of a vertex.
Coord(v, c) == IF c = 1 THEN v.x ELSE IF c = 2 THEN v.y ELSE v.z

StdMin3(a, b, c) == StdMin(a, StdMin(b, c))
StdMax3(a, b, c) == StdMax(a, StdMax(b, c))

\* getBoundingBox()'s loop body had it left the third vertex out.
BoundingBoxWithoutV3(box, tri) ==
    [c \in 1..6 |->
        IF c <= 3
        THEN StdMin(box[c], StdMin(Coord(tri.v1, c), Coord(tri.v2, c)))
        ELSE StdMax(box[c], StdMax(Coord(tri.v1, c - 3), Coord(tri.v2, c - 3)))] \o <<>>

\* The body of getBoundingBox()'s loop for one triangle, box being
\* <<minX, minY, minZ, maxX, maxY, maxZ>> before it.
BoundingBoxWith(box, tri) ==
    [c \in 1..6 |->
        IF c <= 3
        THEN StdMin(box[c], StdMin3(Coord(tri.v1, c), Coord(tri.v2, c), Coord(tri.v3, c)))
        ELSE StdMax(box[c], StdMax3(Coord(tri.v1, c - 3), Coord(tri.v2, c - 3),
                                    Coord(tri.v3, c - 3)))] \o <<>>

\* getBoundingBox()'s loop over triangles[lo..hi] in order, box being the box
\* before it.  (The range is walked in halves: first lo..mid, then the rest
\* from the box that leaves.)
RECURSIVE BoundingBoxFrom(_, _, _, _)
BoundingBoxFrom(tris, lo, hi, box) ==
    IF lo > hi THEN box
    ELSE IF lo = hi THEN BoundingBoxWith(box, tris[lo])
    ELSE Let(BoundingBoxFrom(tris, lo, (lo + hi) \div 2, box),
             LAMBDA half : BoundingBoxFrom(tris, (lo + hi) \div 2 + 1, hi, half))

getBoundingBox(tris) ==
    IF tris = <<>> THEN [c \in 1..6 |-> FInt(0)] \o <<>>
    ELSE BoundingBoxFrom(tris, 1, Len(tris),
                         [c \in 1..6 |-> Coord(tris[1].v1, ((c - 1) % 3) + 1)] \o <<>>)

\* The values the loop variable of `for (double v = v0; v <= vmax; v += step)`
\* takes in its first n iterations; fewer than n when the loop ends before.
\* (Halving n keeps the evaluation shallow; the values are those of the loop.)
RECURSIVE LoopValues(_, _, _, _)
LoopValues(v0, vmax, step, n) ==
    IF n = 0 \/ ~FLe(v0, vmax) THEN <<>>
    ELSE IF n = 1 THEN <<v0>>
    ELSE LET left == LoopValues(v0, vmax, step, n \div 2)
         IN  IF Len(left) < n \div 2 THEN left
             ELSE left \o LoopValues(FAdd(left[n \div 2], step), vmax, step, n - n \div 2)

\* `for (double v = v0; v <= vmax; v += step)` never ends when its first
\* step leaves v where it is or below: every later step does the same.
LoopDiverges(v0, vmax, step) == FLe(v0, vmax) /\ FLe(FAdd(v0, step), v0)

\* slice()'s test had it left the edge v3-v1 out.
IsCandidateTwoEdges(tri, z) ==
    \E edge \in {<<tri.v1, tri.v2>>, <<tri.v2, tri.v3>>} :
        FLe(edge[1].z, z) /\ FLe(z, edge[2].z)

\* The test of slice() that a triangle crosses the plane at height z: one of
\* the edges v1-v2, v2-v3, v3-v1 rises through z from its first end.
IsCandidate(tri, z) ==
    \E edge \in {<<tri.v1, tri.v2>>, <<tri.v2, tri.v3>>, <<tri.v3, tri.v1>>} :
        FLe(edge[1].z, z) /\ FLe(z, edge[2].z)

InterpolationT1(tri, z) == FDiv(FSub(z, tri.v1.z), FSub(tri.v2.z, tri.v1.z))
InterpolationT2(tri, z) == FDiv(FSub(z, tri.v2.z), FSub(tri.v3.z, tri.v2.z))

\* a + t * (b - a)
Interpolate(a, b, t) == FAdd(a, FMul(t, FSub(b, a)))

\* The average of the points p1 and p2 on the two edges.
IntersectionPoint(p1, p2, z) ==
    Vector3(FDiv(FAdd(p1.x, p2.x), FInt(2)), FDiv(FAdd(p1.y, p2.y), FInt(2)), z)

IntersectionAt(tri, z, t1, t2) ==
    IntersectionPoint(
        Vector3(Interpolate(tri.v1.x, tri.v2.x, t1), Interpolate(tri.v1.y, tri.v2.y, t1), z),
        Vector3(Interpolate(tri.v2.x, tri.v3.x, t2), Interpolate(tri.v2.y, tri.v3.y, t2), z),
        z)

calculateIntersection(tri, z) ==
    IntersectionAt(tri, z, InterpolationT1(tri, z), InterpolationT2(tri, z))

\* The step of generateInfill()'s loop: spacing / density, for spacing = 2.0
\* and density = infillDensity / 100.0.
InfillStep(density) == FDiv(FInt(2), FDiv(density, FInt(100)))

\* One two-point line per value x of the loop variable.
InfillLines(xs, bbox, z) ==
    [i \in 1..Len(xs) |-> <<Vector3(xs[i], bbox[2], z), Vector3(xs[i], bbox[5], z)>>] \o <<>>

InfillInBox(bbox, density, z) ==
    InfillLines(LoopValues(bbox[1], bbox[4], InfillStep(density), MaxInfillLines + 1), bbox, z)

\* generateInfill(): the lines of the first MaxInfillLines + 1 iterations.
generateInfill(tris, density, contour, z) == InfillInBox(getBoundingBox(tris), density, z)

IntersectionsOf(cand, z) == [i \in 1..Len(cand) |-> calculateIntersection(cand[i], z)] \o <<>>

\* The intersections slice() collects at height z, in mesh scan order.
Intersections(tris, z) == IntersectionsOf(SelectSeq(tris, LAMBDA tri : IsCandidate(tri, z)), z)

\* slice()'s loop body had it generated the infill of every layer.
LayerOfAlwaysInfill(tris, density, z, intersections) ==
    Layer(z, IF intersections # <<>> THEN <<intersections>> ELSE <<>>,
          generateInfill(tris, density, intersections, z))

LayerOf(tris, density, z, intersections) ==
    IF intersections # <<>>
    THEN Layer(z, <<intersections>>, generateInfill(tris, density, intersections, z))
    ELSE Layer(z, <<>>, <<>>)

\* The body of slice()'s loop: the layer at height z.
SliceLayer(tris, density, z) == LayerOf(tris, density, z, Intersections(tris, z))

\* What slice() comes to with the layers of its first MaxLayers iterations.
\* outcome is "returns" (with the layers), "never returns" when the infill
\* loop of a layer with a contour never ends, and "beyond bounds" when the
\* call makes more layers or infill lines than the model follows.
SliceOutcome(bbox, density, zs, layers) ==
    IF /\ LoopDiverges(bbox[1], bbox[4], InfillStep(density))
       /\ \E i \in 1..Len(layers) : layers[i].contours # <<>>
    THEN [outcome |-> "never returns"]
    ELSE IF \/ Len(zs) > MaxLayers
            \/ \E i \in 1..Len(layers) : Len(layers[i].infill) > MaxInfillLines
    THEN [outcome |-> "beyond bounds"]
    ELSE [outcome |-> "returns", layers |-> layers]

SliceAt(tris, density, bbox, zs) ==
    SliceOutcome(bbox, density, zs,
        [i \in 1..Min(Len(zs), MaxLayers) |-> SliceLayer(tris, density, zs[i])] \o <<>>)

\* slice()'s loop over z from minZ to maxZ; it never ends when the layer loop
\* never ends.
SliceInBox(tris, lh, density, bbox) ==
    IF LoopDiverges(bbox[3], bbox[6], lh) THEN [outcome |-> "never returns"]
    ELSE SliceAt(tris, density, bbox, LoopValues(bbox[3], bbox[6], lh, MaxLayers + 1))

slice(tris, lh, density) == SliceInBox(tris, lh, density, getBoundingBox(tris))

----------------------------------------------------------------------------
\* generateGCode(): the text is held as its lines, one record a line (the six
\* fixed header lines are one record), every number as operator<< writes it.
\* A piece of the text is [lines |-> its lines, e |-> the accumulator after it].

\* e + inc, e + inc + inc, ...: the n values an accumulator takes when inc is
\* added to it n times.
RECURSIVE RunningSums(_, _, _)
RunningSums(e, inc, n) ==
    IF n = 0 THEN <<>>
    ELSE IF n = 1 THEN <<FAdd(e, inc)>>
    ELSE LET left == RunningSums(e, inc, n \div 2)
         IN  left \o RunningSums(left[n \div 2], inc, n - n \div 2)

ContourIncrement == FDiv(FInt(1), FInt(10))
InfillIncrement == FDiv(FInt(5), FInt(100))

MoveZ(height) == [op |-> "G0 Z", z |-> FormatDouble(height)]
MoveXY(p) == [op |-> "G0 X Y", x |-> FormatDouble(p.x), y |-> FormatDouble(p.y)]
Extrude(p, e) ==
    [op |-> "G1 X Y E", x |-> FormatDouble(p.x), y |-> FormatDouble(p.y),
     e |-> FormatDouble(e)]

Piece(lines, e) == [lines |-> lines, e |-> e]
Joined(first, rest) == Piece(first.lines \o rest.lines, rest.e)

ContourMoves(contour, height, e, es) ==
    Piece(<<MoveZ(height), MoveXY(contour[1])>>
            \o ([j \in 1..Len(es) |-> Extrude(contour[j + 1], es[j])] \o <<>>),
          IF es = <<>> THEN e ELSE es[Len(es)])

\* One contour of a layer, the accumulator being e before it.
ContourGCode(contour, height, e) ==
    IF contour = <<>> THEN Piece(<<>>, e)
    ELSE ContourMoves(contour, height, e, RunningSums(e, ContourIncrement, Len(contour) - 1))

RECURSIVE ContoursGCode(_, _, _, _)

ContoursAfter(contours, k, height, first) ==
    Joined(first, ContoursGCode(contours, k + 1, height, first.e))

ContoursGCode(contours, k, height, e) ==
    IF k > Len(contours) THEN Piece(<<>>, e)
    ELSE ContoursAfter(contours, k, height, ContourGCode(contours[k], height, e))

InfillMoves(drawn, height, e, es) ==
    Piece([n \in 1..(3 * Len(drawn)) |->
             IF n % 3 = 1 THEN MoveZ(height)
             ELSE IF n % 3 = 2 THEN MoveXY(drawn[(n + 2) \div 3][1])
             ELSE Extrude(drawn[n \div 3][2], es[n \div 3])] \o <<>>,
          IF es = <<>> THEN e ELSE es[Len(es)])

InfillDrawn(drawn, height, e) ==
    InfillMoves(drawn, height, e, RunningSums(e, InfillIncrement, Len(drawn)))

\* The infill lines of a layer, the accumulator being e before them.
InfillGCode(infill, height, e) ==
    InfillDrawn(SelectSeq(infill, LAMBDA line : ~(Len(line) < 2)), height, e)

LayerAfter(layer, i, c) ==
    Joined(Piece(<<[op |-> "; Layer", i |-> i, z |-> FormatDouble(layer.height)]>> \o c.lines,
                 c.e),
           InfillGCode(layer.infill, layer.height, c.e))

\* generateGCode()'s loop body had it started every layer from e = 0.
LayerGCodeReset(layer, i, e) ==
    LayerAfter(layer, i, ContoursGCode(layer.contours, 1, layer.height, FInt(0)))

\* The body of generateGCode()'s loop for layers[i] (i counted from 0).
LayerGCode(layer, i, e) ==
    LayerAfter(layer, i, ContoursGCode(layer.contours, 1, layer.height, e))

\* generateGCode()'s loop over layers[lo..hi], the accumulator being e before.
RECURSIVE LayersGCode(_, _, _, _)

LayersAfter(layers, mid, hi, left) == Joined(left, LayersGCode(layers, mid + 1, hi, left.e))

LayersGCode(layers, lo, hi, e) ==
    IF lo > hi THEN Piece(<<>>, e)
    ELSE IF lo = hi THEN LayerGCode(layers[lo], lo - 1, e)
    ELSE LayersAfter(layers, (lo + hi) \div 2, hi,
                     LayersGCode(layers, lo, (lo + hi) \div 2, e))

\* layers.back() of an empty vector is undefined behaviour; slice() never
\* returns an empty vector (its first height is minZ <= maxZ), so the model
\* marks the case and no state reaches it.
LiftLine(layers) ==
    IF layers = <<>> THEN [op |-> "G0 Z lift", undefined |-> TRUE]
    ELSE [op |-> "G0 Z lift",
          z |-> FormatDouble(FAdd(layers[Len(layers)].height, FInt(10)))]

GCodeText(layers, lh, density) ==
    <<[op |-> "header", layerHeight |-> FormatDouble(lh),
       infillDensity |-> FormatDouble(density)]>>
    \o LayersGCode(layers, 1, Len(layers), FInt(0)).lines
    \o <<LiftLine(layers), [op |-> "M84"]>>

GCodeOf(s, lh, density) ==
    IF s.outcome = "returns"
    THEN [outcome |-> "returns", text |-> GCodeText(s.layers, lh, density)]
    ELSE [outcome |-> s.outcome]

generateGCode(tris, lh, density) == GCodeOf(slice(tris, lh, density), lh, density)

\* getLayerInfo(): the JSON text, held as the object it spells.
LayerInfoText(bbox, layers, lh, density) ==
    [layerHeight   |-> FormatDouble(lh),
     infillDensity |-> FormatDouble(density),
     totalLayers   |-> Len(layers),
     boundingBox   |-> [i \in 1..6 |-> FormatDouble(bbox[i])] \o <<>>,
     layers        |-> [i \in 1..Len(layers) |->
                          [height       |-> FormatDouble(layers[i].height),
                           contourCount |-> Len(layers[i].contours),
                           infillCount  |-> Len(layers[i].infill)]] \o <<>>]

LayerInfoOf(s, bbox, lh, density) ==
    IF s.outcome = "returns"
    THEN [outcome |-> "returns", text |-> LayerInfoText(bbox, s.layers, lh, density)]
    ELSE [outcome |-> s.outcome]

getLayerInfo(tris, lh, density) ==
    LayerInfoOf(slice(tris, lh, density), getBoundingBox(tris), lh, density)

----------------------------------------------------------------------------
\* The slicer object and the calls made on it.

VARIABLES
    triangles,      \* SimpleSlicer::triangles
    layerHeight,    \* SimpleSlicer::layerHeight
    infillDensity,  \* SimpleSlicer::infillDensity
    ret,            \* what the last call returned
    gcodeCalls,     \* generateGCode() calls returned since the state last changed
    firstGCode      \* the text of the first of them (<<>> when none)

vars == <<triangles, layerHeight, infillDensity, ret, gcodeCalls, firstGCode>>

\* The arguments the calls are made with.
HeightInputs == {FInt(2), FInt(3), FInt(0), FInt(-1)}
DensityInputs == {FInt(0), FInt(50), FInt(-20)}
StlInputs == {"", "solid cube"}

Void == [kind |-> "void"]

\* A call that never returns keeps the (single-threaded) caller inside it.
Running == ~(ret.kind \in {"layers", "gcode", "info"} /\ ret.val.outcome = "never returns")

\* SimpleSlicer()
Init ==
    /\ triangles = <<>>
    /\ layerHeight = FDiv(FInt(2), FInt(10))
    /\ infillDensity = FInt(20)
    /\ ret = Void
    /\ gcodeCalls = 0
    /\ firstGCode = <<>>

SetLayerHeight(height) ==
    /\ Running
    /\ layerHeight' = height
    /\ ret' = Void
    /\ gcodeCalls' = 0
    /\ firstGCode' = <<>>
    /\ UNCHANGED <<triangles, infillDensity>>

SetInfillDensity(density) ==
    /\ Running
    /\ infillDensity' = density
    /\ ret' = Void
    /\ gcodeCalls' = 0
    /\ firstGCode' = <<>>
    /\ UNCHANGED <<triangles, layerHeight>>

\* parseSTL() without triangles.clear().
ParseSTLAppend(stlData) ==
    /\ Running
    /\ triangles' = triangles \o createTestCube
    /\ ret' = [kind |-> "bool", val |-> TRUE]
    /\ gcodeCalls' = 0
    /\ firstGCode' = <<>>
    /\ UNCHANGED <<layerHeight, infillDensity>>

\* parseSTL(): the argument is not read.
ParseSTL(stlData) ==
    /\ Running
    /\ triangles' = createTestCube
    /\ ret' = [kind |-> "bool", val |-> TRUE]
    /\ gcodeCalls' = 0
    /\ firstGCode' = <<>>
    /\ UNCHANGED <<layerHeight, infillDensity>>

GetBoundingBox ==
    /\ Running
    /\ ret' = [kind |-> "bbox", val |-> getBoundingBox(triangles)]
    /\ UNCHANGED <<triangles, layerHeight, infillDensity, gcodeCalls, firstGCode>>

\* The caller takes the outcome r of a call that the model follows.
Returns(kind, r) ==
    /\ r.outcome # "beyond bounds"
    /\ ret' = [kind |-> kind, val |-> r]

Slice ==
    /\ Running
    /\ Returns("layers", slice(triangles, layerHeight, infillDensity))
    /\ UNCHANGED <<triangles, layerHeight, infillDensity, gcodeCalls, firstGCode>>

\* generateGCode() had it handed its mesh over to the slicing run.
GenerateGCodeConsuming ==
    /\ Running
    /\ gcodeCalls < MaxCalls
    /\ ret' = [kind |-> "gcode", val |-> generateGCode(triangles, layerHeight, infillDensity)]
    /\ ret'.val.outcome # "beyond bounds"
    /\ gcodeCalls' = IF ret'.val.outcome = "returns" THEN gcodeCalls + 1 ELSE gcodeCalls
    /\ firstGCode' = IF ret'.val.outcome = "returns" /\ gcodeCalls = 0
                     THEN ret'.val.text ELSE firstGCode
    /\ triangles' = <<>>
    /\ UNCHANGED <<layerHeight, infillDensity>>

GenerateGCode ==
    /\ Running
    /\ gcodeCalls < MaxCalls
    /\ Returns("gcode", generateGCode(triangles, layerHeight, infillDensity))
    /\ gcodeCalls' = IF ret'.val.outcome = "returns" THEN gcodeCalls + 1 ELSE gcodeCalls
    /\ firstGCode' = IF ret'.val.outcome = "returns" /\ gcodeCalls = 0
                     THEN ret'.val.text ELSE firstGCode
    /\ UNCHANGED <<triangles, layerHeight, infillDensity>>

GetLayerInfo ==
    /\ Running
    /\ Returns("info", getLayerInfo(triangles, layerHeight, infillDensity))
    /\ UNCHANGED <<triangles, layerHeight, infillDensity, gcodeCalls, firstGCode>>

Next ==
    \/ \E height \in HeightInputs : SetLayerHeight(height)
    \/ \E density \in DensityInputs : SetInfillDensity(density)
    \/ \E stlData \in StlInputs : ParseSTL(stlData)
    \/ GetBoundingBox
    \/ Slice
    \/ GenerateGCode
    \/ GetLayerInfo

Spec == Init /\ [][Next]_vars

----------------------------------------------------------------------------
\* slice() and getBoundingBox() on arbitrary meshes: the slicer object with
\* its mesh and configuration drawn from small sets, and the two calls on it.

MeshVertices ==
    { Vector3(FInt(0), FInt(0), FInt(0)),
      Vector3(FInt(1), FInt(2), FInt(1)),
      Vector3(FInt(2), FInt(1), FInt(3)) }

MeshTriangles == {Triangle(a, b, c) : a, b, c \in MeshVertices}

\* A second triangle lying flat in one of the three planes.
FlatTriangles == {Triangle(a, a, a) : a \in MeshVertices}

MeshInputs ==
    {<<>>} \cup {<<t>> : t \in MeshTriangles}
           \cup {<<t, u>> : t \in MeshTriangles, u \in FlatTriangles}

MeshHeightInputs == {FDiv(FInt(2), FInt(10)), FInt(1)}
MeshDensityInputs == {FInt(20), FInt(100)}

InitMesh ==
    /\ triangles \in MeshInputs
    /\ layerHeight \in MeshHeightInputs
    /\ infillDensity \in MeshDensityInputs
    /\ ret = Void
    /\ gcodeCalls = 0
    /\ firstGCode = <<>>

NextMesh ==
    \/ GetBoundingBox
    \/ Slice

SpecMesh == InitMesh /\ [][NextMesh]_vars

----------------------------------------------------------------------------
\* Properties of the calls on the slicer object (specification Spec).

\* The last call was one of kind "layers", "gcode" or "info" and returned.
Returned(kind) == ret.kind = kind /\ ret.val.outcome = "returns"

RECURSIVE SumOver(_, _)
SumOver(f, n) == IF n = 0 THEN 0 ELSE f[n] + SumOver(f, n - 1)

\* The G1 moves of a G-code text, in output order.
ExtrusionMoves(text) == SelectSeq(text, LAMBDA line : line.op = "G1 X Y E")

\* a <= b for two written numbers that are not negative.
DecLe(a, b) ==
    \/ a.n = 0
    \/ b.n # 0 /\ (a.x < b.x \/ (a.x = b.x /\ a.n <= b.n))

\* The written number a is t / 20.
DecIsTwentieths(a, t) ==
    /\ a.k = "dec" /\ a.s = 0
    /\ IF a.n = 0 THEN t = 0
       ELSE a.x < Precision /\ a.n * 20 = t * 10^(Precision - 1 - a.x)

\* 0.1 for each contour point after the first of its contour and 0.05 for each
\* infill line, in twentieths.
ExtrusionTwentieths(layer) ==
    2 * SumOver([k \in 1..Len(layer.contours) |-> Max(0, Len(layer.contours[k]) - 1)],
                Len(layer.contours))
    + Len(layer.infill)

TotalTwentieths(layers) ==
    SumOver([i \in 1..Len(layers) |-> ExtrusionTwentieths(layers[i])], Len(layers))

C2Holds(moves, layers) ==
    /\ \A j \in 1..(Len(moves) - 1) : DecLe(moves[j].e, moves[j + 1].e)
    /\ Len(moves) = SumOver([i \in 1..Len(layers) |->
                               (ExtrusionTwentieths(layers[i]) + Len(layers[i].infill)) \div 2],
                            Len(layers))
    /\ moves # <<>> =>
         /\ DecIsTwentieths(moves[1].e, 1) \/ DecIsTwentieths(moves[1].e, 2)
         /\ DecIsTwentieths(moves[Len(moves)].e, TotalTwentieths(layers))

\* C2: in the text of every generateGCode() call that returns - the first and
\* the later ones alike - the E values of the G1 moves never decrease in
\* output order, the first is the first increment (0.1 or 0.05, the
\* accumulator having started at 0), there is one move per contour point
\* after the first and per infill line, and the last E is 0.1 * (contour
\* points after the first) + 0.05 * (infill lines) of the layers slice() makes.
C2_ExtrusionAccumulator ==
    Returned("gcode") =>
        C2Holds(ExtrusionMoves(ret.val.text),
                slice(triangles, layerHeight, infillDensity).layers)

\* A second generateGCode() call on the cube returned, with contour and infill
\* moves over several layers.
C2_Witness ==
    /\ Returned("gcode") /\ gcodeCalls = 2
    /\ Len(ExtrusionMoves(ret.val.text)) > 12
    /\ \E i \in 1..Len(ret.val.text) : ret.val.text[i].op = "; Layer" /\ ret.val.text[i].i > 0

\* C3: every generateGCode() and getLayerInfo() call returns its text,
\* whatever the layer height and infill density set before.
C3_AlwaysTerminates ==
    ret.kind \in {"gcode", "info"} => ret.val.outcome = "returns"

LayerLines(text) == Cardinality({i \in 1..Len(text) : text[i].op = "; Layer"})

\* C4: a generateGCode(), getLayerInfo() or getBoundingBox() call leaves
\* triangles, layerHeight and infillDensity as they were; a generateGCode()
\* call that follows an earlier one with only such calls between returns the
\* text of the first; and the totalLayers of a getLayerInfo() call that follows
\* a generateGCode() call is the number of layers in that call's text.
C4_ReadOnlyCalls ==
    [][ret'.kind \in {"bbox", "gcode", "info"} =>
          /\ UNCHANGED <<triangles, layerHeight, infillDensity>>
          /\ (ret'.kind = "gcode" /\ ret'.val.outcome = "returns" /\ firstGCode # <<>>)
                => ret'.val.text = firstGCode
          /\ (ret'.kind = "info" /\ ret'.val.outcome = "returns" /\ firstGCode # <<>>)
                => ret'.val.text.totalLayers = LayerLines(firstGCode)]_vars

\* getLayerInfo() returned on the cube after a generateGCode() call whose text
\* has several layers.
C4_Witness ==
    /\ Returned("info") /\ triangles # <<>>
    /\ firstGCode # <<>> /\ LayerLines(firstGCode) > 1
    /\ gcodeCalls = 2

C5Infill(layer) ==
    /\ Len(layer.infill) \in {1, 2}
    /\ \A j \in 1..Len(layer.infill) :
         /\ layer.infill[j][1].x = FInt(10 * j - 15)
         /\ layer.infill[j][2].x = FInt(10 * j - 15)

\* C5: once parseSTL() was called (any number of times, any argument) the
\* mesh is the 12 triangles of the cube and getBoundingBox() returns
\* [-5,-5,-5,5,5,5]; with layerHeight 2 and infillDensity 20, slice() returns
\* 6 layers at heights -5,-3,-1,1,3,5, each with exactly one contour and one
\* or two infill lines at X = -5, 5.
C5_CubeEndToEnd ==
    triangles # <<>> =>
        /\ Len(triangles) = 12
        /\ ret.kind = "bbox" =>
             ret.val = <<FInt(-5), FInt(-5), FInt(-5), FInt(5), FInt(5), FInt(5)>>
        /\ (ret.kind = "layers" /\ layerHeight = FInt(2) /\ infillDensity = FInt(20)) =>
             /\ ret.val.outcome = "returns"
             /\ Len(ret.val.layers) = 6
             /\ \A i \in 1..Len(ret.val.layers) :
                  /\ ret.val.layers[i].height = FInt(2 * i - 7)
                  /\ Len(ret.val.layers[i].contours) = 1
                  /\ C5Infill(ret.val.layers[i])

\* slice() returned on the cube with layerHeight 2 and infillDensity 20.
C5_Witness ==
    /\ Returned("layers") /\ triangles # <<>>
    /\ layerHeight = FInt(2) /\ infillDensity = FInt(20)
    /\ Len(ret.val.layers) = 6

\* C6: setInfillDensity(0) is not rejected; no layer of a slice() call that
\* returns with infillDensity 0 carries an infill line.
C6_ZeroDensityNoInfill ==
    (Returned("layers") /\ IsZero(infillDensity)) =>
        \A i \in 1..Len(ret.val.layers) : ret.val.layers[i].infill = <<>>

----------------------------------------------------------------------------
\* Properties of slice() and getBoundingBox() on arbitrary meshes
\* (specification SpecMesh).

\* The integer part of a finite double a >= 0 below 2^31.
FloorOf(a) == BigToNat(IF a.e >= 0 THEN BigShl(a.m, a.e) ELSE BigShr(a.m, -a.e))

FAbs(a) == IF a.k = "nan" THEN a ELSE [a EXCEPT !.s = 0]

\* The floating-point tolerance heights are compared within: 2^-40.
HeightTolerance == Fin(0, <<1>>, -40)

C1Holds(layers, minZ, maxZ, h) ==
    /\ Len(layers) = FloorOf(FDiv(FSub(maxZ, minZ), h)) + 1
    /\ layers # <<>> /\ layers[1].height = minZ
    /\ \A i \in 1..Len(layers) :
         /\ FLe(FAbs(FSub(layers[i].height, FAdd(minZ, FMul(FInt(i - 1), h)))),
                HeightTolerance)
         /\ FLe(layers[i].height, maxZ)
         /\ i > 1 => FLt(layers[i - 1].height, layers[i].height)

\* C1: for layerHeight h > 0, slice() returns floor((maxZ - minZ) / h) + 1
\* layers; the layer at index i has height minZ + i*h (within floating-point
\* tolerance), the first is at minZ, heights strictly increase and none
\* exceeds maxZ.
C1_LayerCountAndHeights ==
    (Returned("layers") /\ FLt(FInt(0), layerHeight)) =>
        C1Holds(ret.val.layers, getBoundingBox(triangles)[3], getBoundingBox(triangles)[6],
                layerHeight)

\* The coordinates on axis c of the vertices of the mesh.
MeshCoords(c) ==
    {Coord(triangles[i][v], c) : i \in 1..Len(triangles), v \in {"v1", "v2", "v3"}}

\* C7: getBoundingBox() returns six zeros for the empty mesh; for any other
\* mesh, on each axis, min <= max, min and max are coordinates of vertices of
\* the mesh, and every vertex coordinate lies between them.
C7_BoundingBoxTight ==
    ret.kind = "bbox" =>
        IF triangles = <<>>
        THEN ret.val = <<FInt(0), FInt(0), FInt(0), FInt(0), FInt(0), FInt(0)>>
        ELSE \A c \in 1..3 :
                 /\ FLe(ret.val[c], ret.val[c + 3])
                 /\ ret.val[c] \in MeshCoords(c)
                 /\ ret.val[c + 3] \in MeshCoords(c)
                 /\ \A x \in MeshCoords(c) : FLe(ret.val[c], x) /\ FLe(x, ret.val[c + 3])

\* getBoundingBox() returned on a mesh of two triangles whose box has an
\* extent on every axis.
C7_Witness ==
    /\ ret.kind = "bbox" /\ Len(triangles) = 2
    /\ \A c \in 1..3 : FLt(ret.val[c], ret.val[c + 3])

\* The triangles slice() takes at height z, in mesh scan order.
Candidates(z) == SelectSeq(triangles, LAMBDA tri : IsCandidate(tri, z))

C8LayerWellFormed(layer, cand) ==
    /\ Len(layer.contours) <= 1
    /\ cand = <<>> => layer.contours = <<>> /\ layer.infill = <<>>
    /\ cand # <<>> =>
         /\ Len(layer.contours) = 1
         /\ Len(layer.contours[1]) = Len(cand)
         /\ \A j \in 1..Len(cand) :
              layer.contours[1][j] = calculateIntersection(cand[j], layer.height)
    /\ layer.infill # <<>> => layer.contours # <<>>
    /\ \A k \in 1..Len(layer.contours) : \A j \in 1..Len(layer.contours[k]) :
         layer.contours[k][j].z = layer.height
    /\ \A k \in 1..Len(layer.infill) :
         /\ Len(layer.infill[k]) = 2
         /\ \A j \in 1..2 : layer.infill[k][j].z = layer.height

\* C8: every layer slice() returns holds at most one contour; a layer with
\* candidate triangles holds the contour of their points in mesh scan order;
\* a layer with none holds no contour and no infill; infill is there only
\* with a contour; every infill line has two endpoints; every contour point
\* and infill endpoint has the layer's height as Z.
C8_LayersWellFormed ==
    Returned("layers") =>
        \A i \in 1..Len(ret.val.layers) :
            C8LayerWellFormed(ret.val.layers[i], Candidates(ret.val.layers[i].height))

\* slice() returned a layer with a contour and infill and a layer with
\* neither.
C8_Witness ==
    /\ Returned("layers")
    /\ \E i \in 1..Len(ret.val.layers) :
         ret.val.layers[i].contours # <<>> /\ ret.val.layers[i].infill # <<>>
    /\ \E i \in 1..Len(ret.val.layers) :
         ret.val.layers[i].contours = <<>> /\ ret.val.layers[i].infill = <<>>

\* min(v1.z, v2.z, v3.z) <= z <= max(v1.z, v2.z, v3.z)
Spans(tri, z) ==
    /\ FLe(StdMin3(tri.v1.z, tri.v2.z, tri.v3.z), z)
    /\ FLe(z, StdMax3(tri.v1.z, tri.v2.z, tri.v3.z))

ContourPoints(layer) == IF layer.contours = <<>> THEN 0 ELSE Len(layer.contours[1])

\* C9: at the height z of every layer slice() returns, a triangle of the mesh
\* is taken as a candidate exactly when min(v1.z,v2.z,v3.z) <= z <=
\* max(v1.z,v2.z,v3.z), and the layer's contour has one point per such
\* triangle.
C9_CandidateIffSpans ==
    Returned("layers") =>
        \A i \in 1..Len(ret.val.layers) :
            /\ \A k \in 1..Len(triangles) :
                 IsCandidate(triangles[k], ret.val.layers[i].height)
                     <=> Spans(triangles[k], ret.val.layers[i].height)
            /\ ContourPoints(ret.val.layers[i])
                 = Cardinality({k \in 1..Len(triangles) :
                                   Spans(triangles[k], ret.val.layers[i].height)})

\* slice() returned a layer that one triangle of a two-triangle mesh spans
\* through its edge v3-v1 only, the other triangle lying off the plane.
C9_Witness ==
    /\ Returned("layers") /\ Len(triangles) = 2
    /\ \E i \in 1..Len(ret.val.layers) :
         /\ ContourPoints(ret.val.layers[i]) = 1
         /\ FLt(triangles[1].v3.z, ret.val.layers[i].height)
         /\ FLt(ret.val.layers[i].height, triangles[1].v1.z)
         /\ FLt(triangles[1].v2.z, triangles[1].v3.z)

InUnitInterval(t) == FLe(FInt(0), t) /\ FLe(t, FInt(1))

\* The contour point slice() made of triangle k of the mesh at this layer.
PointOf(layer, k) ==
    layer.contours[1][Cardinality({n \in 1..k : IsCandidate(triangles[n], layer.height)})]

C10Holds(layer, k, bbox) ==
    /\ InUnitInterval(InterpolationT1(triangles[k], layer.height))
    /\ InUnitInterval(InterpolationT2(triangles[k], layer.height))
    /\ FLe(bbox[1], PointOf(layer, k).x) /\ FLe(PointOf(layer, k).x, bbox[4])
    /\ FLe(bbox[2], PointOf(layer, k).y) /\ FLe(PointOf(layer, k).y, bbox[5])

\* C10: for every candidate triangle whose edges v1-v2 and v2-v3 both have
\* ends at different Z, t1 and t2 lie in [0,1] and the contour point lies
\* within the bounding box in X and Y.
C10_InterpolationInRange ==
    Returned("layers") =>
        \A i \in 1..Len(ret.val.layers) : \A k \in 1..Len(triangles) :
            (/\ IsCandidate(triangles[k], ret.val.layers[i].height)
             /\ ~FEq(triangles[k].v1.z, triangles[k].v2.z)
             /\ ~FEq(triangles[k].v2.z, triangles[k].v3.z))
            => C10Holds(ret.val.layers[i], k, getBoundingBox(triangles))

====
